---- MODULE Spec2Model ----
(***************************************************************************)
(* The OpenRouter key pool (OpenrouterKeyProvider) and its key checker     *)
(* (OpenrouterKeyChecker) as a state machine.                              *)
(*                                                                         *)
(* The pool is the array this.keys; a key's hash is modelled by its        *)
(* position in the configured key list.  Every step of Next is one         *)
(* synchronous run of the event loop: a call of a public method of the     *)
(* pool, or the continuation of checkKey after one of its awaits.          *)
(***************************************************************************)
EXTENDS Integers, Sequences, FiniteSets, TLC

(* ---- bounds of the model ---- *)
PoolKeys == 2
CheckerKeys == 1
MaxBalance == 1
Epoch == 1000
ClockHorizon == 1000
MaxInFlight == 2
MaxPrompts == 1
MaxCalls == 3
MaxFetches == 2
ModelsHorizon == 120000

(* ---- constants of the program ---- *)
KEY_REUSE_DELAY == 500
RATE_LIMIT_LOCKOUT == 2000
MAX_SERVER_ERROR_RETRIES == 2
MAX_CONNECTION_ERROR_RETRIES == 2
MODELS_CACHE_TTL == 60000

VARIABLES
    keys,       \* OpenrouterKeyProvider.keys: the array of key records
    checkKeys,  \* config.checkKeys
    checker,    \* TRUE once init() has created this.checker
    started,    \* TRUE once init() has been called
    now,        \* the reading of Date.now()
    inflight,   \* per key hash and await point: the checkKey calls suspended there
    serverErrorCounts,      \* module-level map of checker.ts
    connectionErrorCounts,  \* module-level map of checker.ts
    probes,     \* per key hash: the validateKey calls in flight, oldest first
    res,        \* what the last call or continuation did and returned
    models      \* modelsCache and modelsCacheTime of proxy/openrouter.ts, and
                \* the getModelsResponse calls waiting for upstream

vars == <<keys, checkKeys, checker, started, now, inflight,
          serverErrorCounts, connectionErrorCounts, probes, res, models>>

poolVars == <<keys, checkKeys, checker, started>>
checkerVars == <<inflight, serverErrorCounts, connectionErrorCounts, probes>>

(* ---- values ---- *)

\* A field the constructor never assigns is undefined: the empty set; an
\* assigned field is the singleton of its value.
Undefined == {}
Some(v) == {v}

\* the hashes of the keys of the pool
Hashes == 1..Len(keys)
NoKey == 0

FreeModel == "deepseek/deepseek-r1:free"
PaidModel == "anthropic/claude-3-opus"
Models == {FreeModel, PaidModel}
freeModels == {FreeModel, "qwen/qwen3-8b:free"}

Families == {"openrouter"}
EmptyUsage == [f \in {} |-> [input |-> 0, output |-> 0]]

\* The await points of checkKey/validateKey, and the retry timer.
Stages == {"paid", "free", "balance", "timer"}

\* the steps of the clock: inside and at the end of the reuse delay
Ticks == {KEY_REUSE_DELAY \div 2, KEY_REUSE_DELAY}

\* what the last call of a pool method returned; Quiet after a step that
\* returns nothing to a caller
Result(op, arg, hash, ok) == [op |-> op, arg |-> arg, hash |-> hash, ok |-> ok]
Quiet == Result("none", "", NoKey, TRUE)

\* let modelsCache: any = null; let modelsCacheTime = 0; no call in flight
Null == "null"
ModelList == "list"
NoModels == [cache |-> Null, time |-> 0, fetching |-> 0]

\* the secret of the h-th key of the configuration; the hash is computed
\* from it
Secret(h) == <<"key", h>>

NewKey(h) ==
    [ key |-> Secret(h),
      hash |-> h,
      isDisabled |-> FALSE,
      isRevoked |-> FALSE,
      promptCount |-> 0,
      lastUsed |-> 0,
      lastChecked |-> 0,
      rateLimitedAt |-> 0,
      rateLimitedUntil |-> 0,
      tokenUsage |-> EmptyUsage,
      isOverQuota |-> FALSE,
      isFreeTier |-> Undefined,
      balance |-> Undefined ]

(* ---- helpers of the pool ---- *)

Max(a, b) == IF a >= b THEN a ELSE b

HasKey(ks, hash) == \E i \in 1..Len(ks) : ks[i].hash = hash

\* this.keys.find((k) => k.hash === hash), as the position in the array
Find(ks, hash) == CHOOSE i \in 1..Len(ks) : ks[i].hash = hash

\* a truthy boolean field: undefined is falsy
Truthy(b) == TRUE \in b

\* prev.balance > current.balance: a comparison with undefined is false
JsGreater(a, b) == \E x \in a : \E y \in b : x > y

isFreeModel(model) == model \in freeModels

\* Object.assign(key, update)
Assign(k, upd) == [f \in DOMAIN k |-> IF f \in DOMAIN upd THEN upd[f] ELSE k[f]]

\* update that assigns the fields to every record of the pool
update_everyKey(ks, hash, upd) ==
    IF HasKey(ks, hash)
    THEN [i \in 1..Len(ks) |-> Assign(ks[i], upd)]
    ELSE ks

update(ks, hash, upd) ==
    IF HasKey(ks, hash)
    THEN [ks EXCEPT ![Find(ks, hash)] = Assign(@, upd)]
    ELSE ks

NotDisabled(k) == ~k.isDisabled
\* PaidUsable without the test of the tier
PaidUsable_anyTier(k) == ~k.isOverQuota
PaidUsable(k) == ~Truthy(k.isFreeTier) /\ ~k.isOverQuota
FreeUsable(k) == Truthy(k.isFreeTier) /\ ~k.isOverQuota

\* availableKeys without the fallback for free models
availableKeys_noFallback(ks, model) ==
    LET enabled == SelectSeq(ks, NotDisabled)
    IN IF isFreeModel(model)
       THEN SelectSeq(enabled, FreeUsable)
       ELSE SelectSeq(enabled, PaidUsable)

\* availableKeys without the filter on isDisabled
availableKeys_withDisabled(ks, model) ==
    LET freeKeys == SelectSeq(ks, FreeUsable)
    IN IF isFreeModel(model)
       THEN IF Len(freeKeys) > 0 THEN freeKeys ELSE ks
       ELSE SelectSeq(ks, PaidUsable)

\* the filters of get(): the keys a request for this model may be given
availableKeys(ks, model) ==
    LET enabled == SelectSeq(ks, NotDisabled)
        freeKeys == SelectSeq(enabled, FreeUsable)
    IN IF isFreeModel(model)
       THEN IF Len(freeKeys) > 0 THEN freeKeys ELSE enabled
       ELSE SelectSeq(enabled, PaidUsable)

\* the callback of availableKeys.reduce
pickBalance(prev, current) ==
    IF JsGreater(prev.balance, current.balance) THEN prev ELSE current

RECURSIVE reduceFrom(_, _, _)
reduceFrom(prev, s, i) ==
    IF i > Len(s) THEN prev ELSE reduceFrom(pickBalance(prev, s[i]), s, i + 1)

\* availableKeys.reduce(...) without an initial value, on a non-empty array
selectKey(s) == reduceFrom(s[1], s, 2)

\* throttle that keeps the old limit instead of taking the maximum
throttle_keepsLimit(ks, hash, t) ==
    LET i == Find(ks, hash)
    IN [ks EXCEPT ![i].rateLimitedAt = t]

\* throttle that always restarts the window at the reuse delay
throttle_noMax(ks, hash, t) ==
    LET i == Find(ks, hash)
    IN [ks EXCEPT ![i].rateLimitedAt = t, ![i].rateLimitedUntil = t + KEY_REUSE_DELAY]

throttle(ks, hash, t) ==
    LET i == Find(ks, hash)
        currentRateLimit == ks[i].rateLimitedUntil
        nextRateLimit == t + KEY_REUSE_DELAY
    IN [ks EXCEPT ![i].rateLimitedAt = t,
                  ![i].rateLimitedUntil = Max(currentRateLimit, nextRateLimit)]

\* a get() that returns after the lastUsed stamp, before throttle()
stamp_noThrottle(ks, hash, t) ==
    [ks EXCEPT ![Find(ks, hash)].lastUsed = t]

\* the stamps of a successful get(): lastUsed, then throttle()
stamp(ks, hash, t) ==
    throttle([ks EXCEPT ![Find(ks, hash)].lastUsed = t], hash, t)

\* markRateLimited that records the time and sets no lockout
markRateLimited_noLockout(ks, hash, t) ==
    [ks EXCEPT ![Find(ks, hash)].rateLimitedAt = t,
               ![Find(ks, hash)].rateLimitedUntil = t]

\* markRateLimited that locks the key out for the reuse delay only
markRateLimited_reuseDelay(ks, hash, t) ==
    [ks EXCEPT ![Find(ks, hash)].rateLimitedAt = t,
               ![Find(ks, hash)].rateLimitedUntil = t + KEY_REUSE_DELAY]

markRateLimited(ks, hash, t) ==
    [ks EXCEPT ![Find(ks, hash)].rateLimitedAt = t,
               ![Find(ks, hash)].rateLimitedUntil = t + RATE_LIMIT_LOCKOUT]

\* disable that falls back to the first key when the hash is unknown
disable_orFirst(ks, hash) ==
    IF HasKey(ks, hash) THEN [ks EXCEPT ![Find(ks, hash)].isDisabled = TRUE]
    ELSE IF Len(ks) > 0 THEN [ks EXCEPT ![1].isDisabled = TRUE]
    ELSE ks

disable(ks, hash) ==
    IF HasKey(ks, hash) THEN [ks EXCEPT ![Find(ks, hash)].isDisabled = TRUE] ELSE ks

available(ks) == Len(SelectSeq(ks, NotDisabled))

\* list that hands out the records as they are
list_withSecret(ks) == ks

\* this.keys.map(({ key, ...rest }) => rest)
list(ks) == [i \in 1..Len(ks) |-> [f \in DOMAIN ks[i] \ {"key"} |-> ks[i][f]]]

\* key.tokenUsage[modelFamily] after the bucket has been created on first use
bucket(tokenUsage, family) ==
    IF family \in DOMAIN tokenUsage THEN tokenUsage[family] ELSE [input |-> 0, output |-> 0]

\* incrementUsage that stores the usage of the call instead of adding it
addUsage_overwrite(k, family, usage) ==
    [k EXCEPT !.promptCount = @ + 1,
              !.tokenUsage =
                  [f \in DOMAIN @ \cup {family} |->
                      IF f = family
                      THEN [input |-> usage.input, output |-> usage.output]
                      ELSE @[f]]]

addUsage(k, family, usage) ==
    [k EXCEPT !.promptCount = @ + 1,
              !.tokenUsage =
                  [f \in DOMAIN @ \cup {family} |->
                      IF f = family
                      THEN [input |-> bucket(@, family).input + usage.input,
                            output |-> bucket(@, family).output + usage.output]
                      ELSE @[f]]]

incrementUsage(ks, hash, family, usage) ==
    IF HasKey(ks, hash)
    THEN [ks EXCEPT ![Find(ks, hash)] = addUsage(@, family, usage)]
    ELSE ks

(* ---- the state after construction ---- *)

\* new OpenrouterKeyProvider() with n keys configured
Constructed(n) ==
    /\ keys = [i \in 1..n |-> NewKey(i)]
    /\ checker = FALSE
    /\ started = FALSE
    /\ now = Epoch
    /\ inflight = [h \in 1..n |-> [s \in Stages |-> 0]]
    /\ serverErrorCounts = [h \in 1..n |-> 0]
    /\ connectionErrorCounts = [h \in 1..n |-> 0]
    /\ probes = [h \in 1..n |-> <<>>]
    /\ res = Quiet
    /\ models = NoModels

Init ==
    /\ checkKeys \in BOOLEAN
    /\ \E n \in 0..CheckerKeys : Constructed(n)

(* ---- the clock ---- *)

Tick(horizon) ==
    /\ \E d \in Ticks : now + d <= Epoch + horizon /\ now' = now + d
    /\ UNCHANGED <<models, poolVars, checkerVars, res>>

(* ---- the pool's public methods ---- *)

Get(model) ==
    LET candidates == availableKeys(keys, model)
    IN /\ IF Len(candidates) = 0
          THEN /\ res' = Result("get", model, NoKey, FALSE)
               /\ UNCHANGED keys
          ELSE LET key == selectKey(candidates)
               IN /\ keys' = stamp(keys, key.hash, now)
                  /\ res' = Result("get", model, key.hash, TRUE)
       /\ UNCHANGED <<models, checkKeys, checker, started, now, checkerVars>>

\* with an unknown hash find() returns undefined and the first assignment
\* to a field of it throws a TypeError, before anything is written
MarkRateLimited(hash) ==
    /\ IF HasKey(keys, hash)
       THEN /\ keys' = markRateLimited(keys, hash, now)
            /\ res' = Quiet
       ELSE /\ keys' = keys
            /\ res' = Result("markRateLimited", "", hash, FALSE)
    /\ UNCHANGED <<models, checkKeys, checker, started, now, checkerVars>>

Disable(hash) ==
    /\ keys' = disable(keys, hash)
    /\ res' = Quiet
    /\ UNCHANGED <<models, checkKeys, checker, started, now, checkerVars>>

\* `limit` caps the prompt count of a key in the model
IncrementUsage(hash, family, usage, limit) ==
    /\ HasKey(keys, hash) => keys[Find(keys, hash)].promptCount < limit
    /\ keys' = incrementUsage(keys, hash, family, usage)
    /\ res' = Quiet
    /\ UNCHANGED <<models, checkKeys, checker, started, now, checkerVars>>

(* ---- the checker: checkKey and its continuations ---- *)

Suspend(fl, hash, stage) == [fl EXCEPT ![hash][stage] = @ + 1]
Resume(fl, hash, stage) == [fl EXCEPT ![hash][stage] = @ - 1]
Move(fl, hash, from, to) == Suspend(Resume(fl, hash, from), hash, to)
Pending(fl, hash) ==
    fl[hash]["paid"] + fl[hash]["free"] + fl[hash]["balance"] + fl[hash]["timer"]

\* checkKey(key) called for every key of the pool: each call runs up to the
\* first await of validateKey, the request with the paid model
RECURSIVE startAll(_, _, _)
startAll(fl, ks, i) ==
    IF i > Len(ks) THEN fl ELSE startAll(Suspend(fl, ks[i].hash, "paid"), ks, i + 1)

\* probes[hash] lists the calls of validateKey for the key that wait for a
\* response, in the order in which they were started: the await point each
\* waits at, and whether the result of a call started after it has been
\* applied to the key meanwhile.
NewProbe == [stage |-> "paid", stale |-> FALSE]

At(ps, stage) == {i \in 1..Len(ps) : ps[i].stage = stage}

RemoveAt(ps, i) == SubSeq(ps, 1, i - 1) \o SubSeq(ps, i + 1, Len(ps))

\* the result of probe i is applied: the probes started before it are from
\* now on older than the state of the key
Outdate(ps, i) ==
    [j \in 1..Len(ps) |-> IF j < i THEN [ps[j] EXCEPT !.stale = TRUE] ELSE ps[j]]

\* validateKey of probe i returns or throws and checkKey applies the outcome
Finish(ps, i) == RemoveAt(Outdate(ps, i), i)

\* checkKey(key) called for every key of the pool starts one probe per key
startProbes(pr) == [h \in DOMAIN pr |-> Append(pr[h], NewProbe)]

\* the partial records the checker and recheck() pass to update()
validUpdate(t) == [isDisabled |-> FALSE, lastChecked |-> t]
invalidUpdate(t) == [isDisabled |-> TRUE, isRevoked |-> TRUE, lastChecked |-> t]
\* a quota result that marks the key without disabling it
quotaUpdate_keepsEnabled(t) == [isOverQuota |-> TRUE, lastChecked |-> t]
quotaUpdate(t) == [isDisabled |-> TRUE, isOverQuota |-> TRUE, lastChecked |-> t]
\* a retry that also takes the key out of rotation
checkedUpdate_disables(t) == [isDisabled |-> TRUE, lastChecked |-> t]
checkedUpdate(t) == [lastChecked |-> t]
\* a free key recorded with the tier of a paid key
freeTierUpdate_asPaid == [isFreeTier |-> Some(FALSE), balance |-> Some(0)]
freeTierUpdate == [isFreeTier |-> Some(TRUE), balance |-> Some(0)]
paidTierUpdate(balance) == [isFreeTier |-> Some(FALSE), balance |-> Some(balance)]
\* a recheck that leaves the quota flag as it is
recheckUpdate_keepsQuota == [isDisabled |-> FALSE, lastChecked |-> 0]
\* a recheck that also clears the revocation
recheckUpdate_clearsRevoked ==
    [isOverQuota |-> FALSE, isDisabled |-> FALSE, isRevoked |-> FALSE, lastChecked |-> 0]
recheckUpdate == [isOverQuota |-> FALSE, isDisabled |-> FALSE, lastChecked |-> 0]

handleCheckResult(ks, hash, result, t) ==
    CASE result = "valid" -> update(ks, hash, validUpdate(t))
      [] result = "invalid" -> update(ks, hash, invalidUpdate(t))
      [] result = "quota" -> update(ks, hash, quotaUpdate(t))
      [] result = "server_error" -> update(ks, hash, checkedUpdate(t))

\* the update() calls of recheck(), one per key, in array order
RECURSIVE recheckFrom(_, _)
recheckFrom(ks, i) ==
    IF i > Len(ks) THEN ks
    ELSE recheckFrom(update(ks, ks[i].hash, recheckUpdate), i + 1)

\* checkKey that forgets to clear the connection-error count of the key
Returned_keepsConnectionCount(ks, hash, from, result) ==
    LET currentCount == serverErrorCounts[hash] + 1
    IN /\ UNCHANGED connectionErrorCounts
       /\ \E i \in At(probes[hash], from) :
             probes' = [probes EXCEPT ![hash] = Finish(@, i)]
       /\ IF result = "server_error"
          THEN IF currentCount <= MAX_SERVER_ERROR_RETRIES
               THEN /\ serverErrorCounts' = [serverErrorCounts EXCEPT ![hash] = currentCount]
                    /\ inflight' = Move(inflight, hash, from, "timer")
                    /\ keys' = update(ks, hash, checkedUpdate(now))
               ELSE /\ serverErrorCounts' = [serverErrorCounts EXCEPT ![hash] = 0]
                    /\ inflight' = Resume(inflight, hash, from)
                    /\ keys' = handleCheckResult(ks, hash, "invalid", now)
          ELSE /\ serverErrorCounts' = [serverErrorCounts EXCEPT ![hash] = 0]
               /\ inflight' = Resume(inflight, hash, from)
               /\ keys' = handleCheckResult(ks, hash, result, now)

\* checkKey after `await this.validateKey(key)` returned `result`; `ks` is the
\* pool as validateKey left it and `from` the await point the call resumes at
Returned(ks, hash, from, result) ==
    LET currentCount == serverErrorCounts[hash] + 1
    IN /\ connectionErrorCounts' = [connectionErrorCounts EXCEPT ![hash] = 0]
       /\ \E i \in At(probes[hash], from) :
             probes' = [probes EXCEPT ![hash] = Finish(@, i)]
       /\ IF result = "server_error"
          THEN IF currentCount <= MAX_SERVER_ERROR_RETRIES
               THEN /\ serverErrorCounts' = [serverErrorCounts EXCEPT ![hash] = currentCount]
                    /\ inflight' = Move(inflight, hash, from, "timer")
                    /\ keys' = update(ks, hash, checkedUpdate(now))
               ELSE /\ serverErrorCounts' = [serverErrorCounts EXCEPT ![hash] = 0]
                    /\ inflight' = Resume(inflight, hash, from)
                    /\ keys' = handleCheckResult(ks, hash, "invalid", now)
          ELSE /\ serverErrorCounts' = [serverErrorCounts EXCEPT ![hash] = 0]
               /\ inflight' = Resume(inflight, hash, from)
               /\ keys' = handleCheckResult(ks, hash, result, now)

\* a catch block that retries without counting the failure
Thrown_neverCounts(hash, from) ==
    /\ UNCHANGED connectionErrorCounts
    /\ inflight' = Move(inflight, hash, from, "timer")
    /\ keys' = update(keys, hash, checkedUpdate(now))
    /\ \E i \in At(probes[hash], from) :
          probes' = [probes EXCEPT ![hash] = Finish(@, i)]
    /\ UNCHANGED serverErrorCounts

\* a catch block that clears the connection-error counts of every key when
\* the budget of one key is used up
Thrown_clearsAllCounts(hash, from) ==
    LET currentCount == connectionErrorCounts[hash] + 1
    IN /\ IF currentCount <= MAX_CONNECTION_ERROR_RETRIES
          THEN /\ connectionErrorCounts' = [connectionErrorCounts EXCEPT ![hash] = currentCount]
               /\ inflight' = Move(inflight, hash, from, "timer")
               /\ keys' = update(keys, hash, checkedUpdate(now))
          ELSE /\ connectionErrorCounts' = [h \in DOMAIN connectionErrorCounts |-> 0]
               /\ inflight' = Resume(inflight, hash, from)
               /\ keys' = update(keys, hash, invalidUpdate(now))
       /\ \E i \in At(probes[hash], from) :
             probes' = [probes EXCEPT ![hash] = Finish(@, i)]
       /\ UNCHANGED serverErrorCounts

\* the catch block of checkKey: validateKey threw while suspended at `from`
Thrown(hash, from) ==
    LET currentCount == connectionErrorCounts[hash] + 1
    IN /\ IF currentCount <= MAX_CONNECTION_ERROR_RETRIES
          THEN /\ connectionErrorCounts' = [connectionErrorCounts EXCEPT ![hash] = currentCount]
               /\ inflight' = Move(inflight, hash, from, "timer")
               /\ keys' = update(keys, hash, checkedUpdate(now))
          ELSE /\ connectionErrorCounts' = [connectionErrorCounts EXCEPT ![hash] = 0]
               /\ inflight' = Resume(inflight, hash, from)
               /\ keys' = update(keys, hash, invalidUpdate(now))
       /\ \E i \in At(probes[hash], from) :
             probes' = [probes EXCEPT ![hash] = Finish(@, i)]
       /\ UNCHANGED serverErrorCounts

\* what validateKey makes of the status of the request with the paid model
paidResult(status) ==
    CASE status = 402 -> "free"
      [] status = 200 -> "balance"
      [] status = 401 -> "invalid"
      [] OTHER -> "server_error"

\* what validateKey makes of the status of the request with the free model
freeResult(status) == IF status = 200 THEN "valid" ELSE "quota"

PaidStatuses == {200, 400, 401, 402, 403, 429, 500}
FreeStatuses == {200, 402, 429}

\* init() that starts the checks whatever the configuration says
PoolInit_ignoresConfig ==
    /\ ~started
    /\ started' = TRUE
    /\ IF Len(keys) = 0
       THEN UNCHANGED <<checker, inflight, probes>>
       ELSE /\ checker' = TRUE
            /\ inflight' = startAll(inflight, keys, 1)
            /\ probes' = startProbes(probes)
    /\ res' = Quiet
    /\ UNCHANGED <<models, keys, checkKeys, now, serverErrorCounts, connectionErrorCounts>>

PoolInit ==
    /\ ~started
    /\ started' = TRUE
    /\ IF Len(keys) = 0 \/ ~checkKeys
       THEN UNCHANGED <<checker, inflight, probes>>
       ELSE /\ checker' = TRUE
            /\ inflight' = startAll(inflight, keys, 1)
            /\ probes' = startProbes(probes)
    /\ res' = Quiet
    /\ UNCHANGED <<models, keys, checkKeys, now, serverErrorCounts, connectionErrorCounts>>

Recheck(limit) ==
    /\ \A h \in Hashes : Pending(inflight, h) < limit
    /\ IF ~checker \/ ~checkKeys
       THEN UNCHANGED <<keys, inflight, probes>>
       ELSE /\ keys' = recheckFrom(keys, 1)
            /\ inflight' = startAll(inflight, keys, 1)
            /\ probes' = startProbes(probes)
    /\ res' = Quiet
    /\ UNCHANGED <<models, checkKeys, checker, started, now, serverErrorCounts, connectionErrorCounts>>

\* the response to the request with the paid model arrives
PaidResponse(hash, status) ==
    /\ inflight[hash]["paid"] > 0
    /\ res' = Quiet
    /\ IF paidResult(status) \in {"free", "balance"}
       THEN /\ inflight' = Move(inflight, hash, "paid", paidResult(status))
            /\ \E i \in At(probes[hash], "paid") :
                  probes' = [probes EXCEPT ![hash][i].stage = paidResult(status)]
            /\ UNCHANGED <<keys, serverErrorCounts, connectionErrorCounts>>
       ELSE Returned(keys, hash, "paid", paidResult(status))
    /\ UNCHANGED <<models, checkKeys, checker, started, now>>

\* the response to the request with the free model arrives
FreeResponse(hash, status) ==
    /\ inflight[hash]["free"] > 0
    /\ res' = Quiet
    /\ IF freeResult(status) = "valid"
       THEN Returned(update(keys, hash, freeTierUpdate), hash, "free", "valid")
       ELSE Returned(keys, hash, "free", freeResult(status))
    /\ UNCHANGED <<models, checkKeys, checker, started, now>>

\* getKeyBalance returns: limit_remaining, or 0 after any failure
BalanceResponse(hash, balance) ==
    /\ inflight[hash]["balance"] > 0
    /\ res' = Quiet
    /\ Returned(update(keys, hash, paidTierUpdate(balance)), hash, "balance", "valid")
    /\ UNCHANGED <<models, checkKeys, checker, started, now>>

\* a fetch of validateKey rejects: a connection error, or the abort at CHECK_TIMEOUT
FetchFails(hash, stage) ==
    /\ inflight[hash][stage] > 0
    /\ res' = Quiet
    /\ Thrown(hash, stage)
    /\ UNCHANGED <<models, checkKeys, checker, started, now>>

\* the retry timer set by checkKey fires and calls checkKey(key) again
RetryFires(hash) ==
    /\ inflight[hash]["timer"] > 0
    /\ inflight' = Move(inflight, hash, "timer", "paid")
    /\ probes' = [probes EXCEPT ![hash] = Append(@, NewProbe)]
    /\ res' = Quiet
    /\ UNCHANGED <<models, poolVars, now, serverErrorCounts, connectionErrorCounts>>

PoolCalls ==
    \/ \E m \in Models : Get(m)
    \/ \E h \in Hashes : MarkRateLimited(h)
    \/ \E h \in Hashes : Disable(h)

CheckerNext ==
    \/ \E h \in Hashes, s \in PaidStatuses : PaidResponse(h, s)
    \/ \E h \in Hashes, s \in FreeStatuses : FreeResponse(h, s)
    \/ \E h \in Hashes, b \in 0..MaxBalance : BalanceResponse(h, b)
    \/ \E h \in Hashes, s \in {"paid", "free"} : FetchFails(h, s)
    \/ \E h \in Hashes : RetryFires(h)

\* The whole program: the pool, its callers and the checker.  Every call
\* reads the same value of the clock; SpecClock follows the clock.
Next ==
    \/ PoolCalls
    \/ \E h \in Hashes : IncrementUsage(h, "openrouter", [input |-> 1, output |-> 1], MaxPrompts)
    \/ PoolInit
    \/ Recheck(MaxInFlight)
    \/ CheckerNext

Spec == Init /\ [][Next]_vars

\* The checker at work on the keys of the pool: init(), recheck(), the
\* responses, failures and retry timers of the checks, and disable().
NextChecker ==
    \/ PoolInit
    \/ Recheck(MaxInFlight)
    \/ CheckerNext
    \/ \E h \in Hashes : Disable(h)

SpecChecker == Init /\ [][NextChecker]_vars

(* ---- the pool under its callers ---- *)

\* The pool after startup with key checking on: the constructor, then init(),
\* which has started one check per key.
InitPool ==
    \E n \in 0..PoolKeys :
        /\ keys = [i \in 1..n |-> NewKey(i)]
        /\ checkKeys = TRUE
        /\ checker = (n > 0)
        /\ started = TRUE
        /\ now = Epoch
        /\ inflight = [h \in 1..n |-> [s \in Stages |-> IF s = "paid" THEN 1 ELSE 0]]
        /\ serverErrorCounts = [h \in 1..n |-> 0]
        /\ connectionErrorCounts = [h \in 1..n |-> 0]
        /\ probes = [h \in 1..n |-> <<NewProbe>>]
        /\ res = Quiet
        /\ models = NoModels

\* every partial record a caller of update() in the sources passes
Updates(t) ==
    {validUpdate(t), invalidUpdate(t), quotaUpdate(t), checkedUpdate(t),
     freeTierUpdate, recheckUpdate}
        \cup {paidTierUpdate(b) : b \in 0..MaxBalance}

\* update(hash, partial) called by the checker or by recheck()
Update(hash, upd) ==
    /\ keys' = update(keys, hash, upd)
    /\ res' = Quiet
    /\ UNCHANGED <<models, checkKeys, checker, started, now, checkerVars>>

\* The pool with the checker as one of its callers: the checker's calls of
\* update() arrive in any order, between the calls of the proxy, all within
\* one reading of the clock.
NextPool ==
    \/ PoolCalls
    \/ \E h \in Hashes : \E upd \in Updates(now) : Update(h, upd)

SpecPool == InitPool /\ [][NextPool]_vars

\* The pool under the calls of the proxy as the clock advances.
NextClock ==
    \/ Tick(ClockHorizon)
    \/ PoolCalls

SpecClock == InitPool /\ [][NextClock]_vars

\* The checker at work on every key of the pool at once: the checks init()
\* started, one per key, with their retries.
NextChecks == CheckerNext

SpecChecks == InitPool /\ [][NextChecks]_vars

\* The checker left to itself after init(): every response and every failure
\* of a request in flight arrives and every retry timer fires in the end.
\* The checker sets no timer but the retry timers of checkKey.
SpecPeriodic == InitPool /\ [][NextChecks]_vars /\ WF_vars(CheckerNext)

\* the abort timer of validateKey (CHECK_TIMEOUT) rejects the request of the
\* key that is in flight with controller.signal
Aborted(hash) ==
    /\ hash \in Hashes
    /\ \E stage \in {"paid", "free"} : FetchFails(hash, stage)

\* The checker with the timers the code sets and nothing else to rely on: the
\* abort timer of every validateKey call and the retry timers of checkKey
\* fire; whether the server ever answers a request is left open.
SpecTimeout ==
    /\ InitPool
    /\ [][NextChecks]_vars
    /\ \A h \in 1..PoolKeys :
          /\ WF_vars(Aborted(h))
          /\ WF_vars(h \in Hashes /\ RetryFires(h))

\* The pool called with hashes of its own keys and with hashes it does not
\* hold: a pool of fewer than PoolKeys keys does not hold the hash PoolKeys.
CallerHashes == 1..PoolKeys

\* two of the partial records the checker passes to update()
CallerUpdates(t) == {invalidUpdate(t), freeTierUpdate}

NextCalls ==
    \/ \E m \in Models : Get(m)
    \/ \E h \in CallerHashes : MarkRateLimited(h)
    \/ \E h \in CallerHashes : Disable(h)
    \/ \E h \in CallerHashes : \E upd \in CallerUpdates(now) : Update(h, upd)
    \/ \E h \in CallerHashes :
          IncrementUsage(h, "openrouter", [input |-> 1, output |-> 1], MaxPrompts)

SpecCalls == InitPool /\ [][NextCalls]_vars

(* ---- the models list of proxy/openrouter.ts ---- *)

\* the model getModelsResponse asks the pool a key for
ModelsKeyModel == "anthropic/claude-sonnet-4"

\* Date.now() when the proxy starts: later than one cache lifetime after the
\* zero of the clock, as every reading of a real clock is
ModelsEpoch == Epoch + MODELS_CACHE_TTL

ModelTicks == {MODELS_CACHE_TTL \div 2, MODELS_CACHE_TTL}

\* a fetch that stamps the cache whether or not it got a list
fetched_stampsAlways(m, ok, t) ==
    [cache |-> IF ok THEN ModelList ELSE m.cache, time |-> t, fetching |-> m.fetching - 1]

\* getModelsResponse after `await axios.get`: a list fills the cache and then
\* stamps modelsCacheTime; an error or an unexpected body throws before either
fetched(m, ok, t) ==
    IF ok
    THEN [cache |-> ModelList, time |-> t, fetching |-> m.fetching - 1]
    ELSE [m EXCEPT !.fetching = @ - 1]

\* handleModelRequest up to the await of getModelsResponse: the cached value
\* while the cache is younger than a minute, otherwise a key from the pool
\* and the request to upstream; without a key the call fails with status 500
ModelRequest ==
    /\ IF now - models.time < MODELS_CACHE_TTL
       THEN /\ res' = Result("models", models.cache, NoKey, TRUE)
            /\ UNCHANGED <<keys, models>>
       ELSE LET candidates == availableKeys(keys, ModelsKeyModel)
            IN IF Len(candidates) = 0
               THEN /\ res' = Result("models", "error", NoKey, FALSE)
                    /\ UNCHANGED <<keys, models>>
               ELSE /\ models.fetching < MaxFetches
                    /\ keys' = stamp(keys, selectKey(candidates).hash, now)
                    /\ models' = [models EXCEPT !.fetching = @ + 1]
                    /\ res' = Quiet
    /\ UNCHANGED <<checkKeys, checker, started, now, checkerVars>>

\* upstream answers a call in flight, with a list (ok) or not
UpstreamAnswers(ok) ==
    /\ models.fetching > 0
    /\ models' = fetched(models, ok, now)
    /\ res' = IF ok THEN Result("models", models'.cache, NoKey, TRUE)
                    ELSE Result("models", "error", NoKey, FALSE)
    /\ UNCHANGED <<keys, checkKeys, checker, started, now, checkerVars>>

Wait(d, horizon) ==
    /\ now + d <= ModelsEpoch + horizon
    /\ now' = now + d
    /\ UNCHANGED <<poolVars, checkerVars, res, models>>

InitModels ==
    \E n \in 0..PoolKeys :
        /\ keys = [i \in 1..n |-> NewKey(i)]
        /\ checkKeys = FALSE
        /\ checker = FALSE
        /\ started = TRUE
        /\ now = ModelsEpoch
        /\ inflight = [h \in 1..n |-> [s \in Stages |-> 0]]
        /\ serverErrorCounts = [h \in 1..n |-> 0]
        /\ connectionErrorCounts = [h \in 1..n |-> 0]
        /\ probes = [h \in 1..n |-> <<>>]
        /\ res = Quiet
        /\ models = NoModels

\* The models endpoint of the proxy over a pool without key checking, as the
\* clock advances and keys are disabled.
NextModels ==
    \/ ModelRequest
    \/ \E ok \in BOOLEAN : UpstreamAnswers(ok)
    \/ \E d \in ModelTicks : Wait(d, ModelsHorizon)
    \/ \E h \in Hashes : Disable(h)

SpecModels == InitModels /\ [][NextModels]_vars

\* The pool's usage accounting: incrementUsage() for two model families and
\* two usages, get(), and a caller that writes into the tokenUsage of the
\* object get() returned to it.
UsageFamilies == {"openrouter", "familyA"}
Usages == {[input |-> 10, output |-> 5], [input |-> 1, output |-> 0]}

\* get() returns { ...key }: the copy has fields of its own and shares the
\* tokenUsage object with the pool's record, so a write of
\* snapshot.tokenUsage[family] is a write of the record's tokenUsage
HolderWrites(family, usage) ==
    /\ res.op = "get" /\ res.ok
    /\ keys' = [keys EXCEPT
                  ![Find(keys, res.hash)].tokenUsage =
                      [f \in DOMAIN @ \cup {family} |->
                          IF f = family THEN usage ELSE @[f]]]
    /\ UNCHANGED <<models, checkKeys, checker, started, now, checkerVars, res>>

NextUsage ==
    \/ \E h \in Hashes : \E f \in UsageFamilies : \E u \in Usages :
          IncrementUsage(h, f, u, MaxCalls)
    \/ \E m \in Models : Get(m)
    \/ \E f \in UsageFamilies : \E u \in Usages : HolderWrites(f, u)

SpecUsage == InitPool /\ [][NextUsage]_vars

\* n calls of incrementUsage with the same family and usage on one record
RECURSIVE Times(_, _, _, _)
Times(k, family, usage, n) ==
    IF n = 0 THEN k ELSE Times(addUsage(k, family, usage), family, usage, n - 1)

\* The pool from its construction on, with key checking switched on or off:
\* init(), recheck(), the calls of the proxy and the checker's calls of
\* update().
InitRecheck ==
    /\ checkKeys \in BOOLEAN
    /\ \E n \in 0..PoolKeys : Constructed(n)

NextRecheck ==
    \/ PoolInit
    \/ Recheck(MaxInFlight)
    \/ \E m \in Models : Get(m)
    \/ \E h \in Hashes : \E upd \in Updates(now) : Update(h, upd)

SpecRecheck == InitRecheck /\ [][NextRecheck]_vars

(* ---- what a caller of get() observes ---- *)

\* the last call of the pool was a get() that returned a key
GotKey == res.op = "get" /\ res.ok

\* the pool's record of the key the last get() returned
TheKey == keys[Find(keys, res.hash)]

\* this step is a call of get(model): only get() leaves a get result, and the
\* clock leaves the result and the records as they are
GetStep(model) ==
    /\ res'.op = "get"
    /\ res'.arg = model
    /\ <<res, keys>>' # <<res, keys>>

\* the positions of the keys get() may pick for the model and that are not
\* throttled at time t: the eligible keys of the design
EligibleAt(model, t) ==
    {i \in 1..Len(keys) :
        /\ \E j \in 1..Len(availableKeys(keys, model)) :
              availableKeys(keys, model)[j].hash = keys[i].hash
        /\ t >= keys[i].rateLimitedUntil}

\* a balance the checker has not assigned counts as the lowest balance
BalanceOf(k) == IF k.balance = Undefined THEN 0 ELSE CHOOSE b \in k.balance : TRUE

(* ---- what the checker does to a key ---- *)

\* the pool's record of the key with this hash
KeyOf(ks, hash) == ks[Find(ks, hash)]

\* the statuses of the paid-model request that validateKey reports as a
\* server error
ServerErrorStatuses == {s \in PaidStatuses : paidResult(s) = "server_error"}

\* this step is a check of the key ending in a server-error result
ServerErrorStep(hash) == \E s \in ServerErrorStatuses : PaidResponse(hash, s)

\* this step is a check of the key ending in a thrown error
ConnectionErrorStep(hash) == \E stage \in {"paid", "free"} : FetchFails(hash, stage)

\* The only check of the key is in its first attempt: every attempt that ends
\* writes lastChecked = Date.now(), and only recheck(), which starts a check
\* of its own, resets it to 0.
FirstAttempt(hash) ==
    /\ Pending(inflight, hash) = 1
    /\ inflight[hash]["timer"] = 0
    /\ KeyOf(keys, hash).lastChecked = 0

\* this step applies the outcome of the probe at position i of the key
Applies(hash, i) == probes'[hash] = Finish(probes[hash], i)

\* this step leaves the flag as it was or clears it
NotRaised(hash, flag) == KeyOf(keys, hash)'[flag] => KeyOf(keys, hash)[flag]

(* ---- the claims ---- *)

\* C1: get(model) never returns a key whose isDisabled flag is true at the
\* moment of the call, whatever calls of the pool and updates of the checker
\* came before.  (get() does not write isDisabled, so the flag of the returned
\* key is the same before and after the call.)
C1_GetNeverReturnsDisabled == GotKey => ~TheKey.isDisabled

\* get() returned a key although a disabled key with a higher balance exists
C1_Witness ==
    /\ GotKey
    /\ \E i \in 1..Len(keys) :
          /\ keys[i].isDisabled
          /\ JsGreater(keys[i].balance, TheKey.balance)

\* C2: get() never returns a key that is throttled at the time of the call
\* (now < rateLimitedUntil).
C2_GetNeverReturnsThrottled ==
    [][\A m \in Models :
          (GetStep(m) /\ res'.ok) => now >= keys[Find(keys, res'.hash)].rateLimitedUntil]_vars

\* C3: after get() returned key K at time t, a second get() for the same model
\* before t + KEY_REUSE_DELAY does not return K again, provided another
\* eligible key exists.
C3_NoReuseWithinDelay ==
    [][\A m \in Models :
          ( /\ GotKey
            /\ res.arg = m
            /\ GetStep(m)
            /\ now < TheKey.lastUsed + KEY_REUSE_DELAY
            /\ EligibleAt(m, now) \ {Find(keys, res.hash)} # {} )
          => res'.hash # res.hash]_vars

\* C4: for a model that is not free get() never returns a free-tier key; for a
\* free model get() returns a free-tier key whenever an enabled free-tier key
\* that is not over quota exists.
C4_TierFilter ==
    /\ (GotKey /\ ~isFreeModel(res.arg)) => ~Truthy(TheKey.isFreeTier)
    /\ ( /\ res.op = "get"
         /\ isFreeModel(res.arg)
         /\ \E i \in 1..Len(keys) :
               ~keys[i].isDisabled /\ Truthy(keys[i].isFreeTier) /\ ~keys[i].isOverQuota )
       => (res.ok /\ Truthy(TheKey.isFreeTier))

\* a free model was given a free-tier key although an enabled paid key with a
\* higher balance exists
C4_Witness ==
    /\ GotKey
    /\ isFreeModel(res.arg)
    /\ Truthy(TheKey.isFreeTier)
    /\ \E i \in 1..Len(keys) :
          /\ ~keys[i].isDisabled
          /\ keys[i].isFreeTier = Some(FALSE)
          /\ JsGreater(keys[i].balance, TheKey.balance)

\* C5: in every reachable state every revoked key is disabled.
C5_RevokedImpliesDisabled ==
    \A i \in 1..Len(keys) : keys[i].isRevoked => keys[i].isDisabled

\* C6: once isRevoked is true it stays true, whatever the pool's callers and
\* the checker do.
C6_RevokedForever ==
    [][\A i \in 1..Len(keys) : keys[i].isRevoked => keys'[i].isRevoked]_vars

\* a revoked key that recheck() or a later valid result has enabled again
C6_Witness ==
    \E i \in 1..Len(keys) : keys[i].isRevoked /\ ~keys[i].isDisabled

\* C7: rateLimitedUntil >= rateLimitedAt for every key in every reachable state.
C7_UntilNotBeforeAt ==
    \A i \in 1..Len(keys) : keys[i].rateLimitedUntil >= keys[i].rateLimitedAt

\* a key that markRateLimited() locked out and that a later get() throttled:
\* the lockout is still the later of the two limits
C7_Witness ==
    \E i \in 1..Len(keys) :
        /\ keys[i].lastUsed > Epoch
        /\ keys[i].rateLimitedAt = keys[i].lastUsed
        /\ keys[i].rateLimitedUntil = Epoch + RATE_LIMIT_LOCKOUT

\* C8: get() fails exactly when no key is eligible for the model, and a failing
\* get() leaves every key record as it was.
C8_FailsIffNoneEligible ==
    [][\A m \in Models :
          GetStep(m) =>
              /\ (~res'.ok) <=> (EligibleAt(m, now) = {})
              /\ (~res'.ok) => keys' = keys]_vars

\* C9: the key get() returns has a balance greater than or equal to the
\* balance of every other eligible key, also when the checker has not yet
\* assigned a balance to some key.
C9_HighestBalance ==
    GotKey =>
        \A i \in EligibleAt(res.arg, now) : BalanceOf(TheKey) >= BalanceOf(keys[i])

\* C10: a successful get() at time now sets lastUsed = now, rateLimitedAt = now
\* and rateLimitedUntil = max(previous rateLimitedUntil, now + KEY_REUSE_DELAY)
\* on the chosen key and changes nothing else in the pool.
C10_GetStamps ==
    [][\A m \in Models :
          (GetStep(m) /\ res'.ok) =>
              LET i == Find(keys, res'.hash)
              IN keys' = [keys EXCEPT
                            ![i].lastUsed = now,
                            ![i].rateLimitedAt = now,
                            ![i].rateLimitedUntil =
                                Max(keys[i].rateLimitedUntil, now + KEY_REUSE_DELAY)]]_vars

\* get() returned a key whose earlier lockout outlasts the reuse delay, while
\* the other key of the pool carries stamps of its own
C10_Witness ==
    /\ GotKey
    /\ TheKey.lastUsed = now
    /\ TheKey.rateLimitedUntil > now + KEY_REUSE_DELAY
    /\ \E i \in 1..Len(keys) : i # Find(keys, res.hash) /\ keys[i].lastUsed > 0

\* C11: markRateLimited(hash) at time now sets that key's rateLimitedAt = now
\* and rateLimitedUntil = now + RATE_LIMIT_LOCKOUT and changes nothing else in
\* the pool.
C11_MarkRateLimitedStamps ==
    [][\A h \in Hashes :
          MarkRateLimited(h) =>
              /\ keys' = [keys EXCEPT ![Find(keys, h)].rateLimitedAt = now,
                                      ![Find(keys, h)].rateLimitedUntil = now + RATE_LIMIT_LOCKOUT]
              /\ UNCHANGED <<checkKeys, checker, started>>]_vars

\* a key locked out by markRateLimited() after the clock has advanced and
\* after get() had throttled it, next to a key that a get() has stamped
C11_Witness ==
    \E i, j \in 1..Len(keys) :
        /\ i # j
        /\ now > Epoch
        /\ keys[i].rateLimitedAt = now
        /\ keys[i].rateLimitedUntil = now + RATE_LIMIT_LOCKOUT
        /\ keys[i].lastUsed > 0
        /\ keys[i].lastUsed < now
        /\ keys[j].lastUsed > 0

\* C12: every change to a key record is performed by update(hash,
\* partialFields): a step that changes the records has the effect of one of
\* the calls of update() in the sources.
C12_OnlyUpdateWrites ==
    [][keys' # keys =>
          \E h \in Hashes : \E upd \in Updates(now) : keys' = update(keys, h, upd)]_vars

\* C13: a failed attempt (a server-error result or a thrown error) that
\* exhausts the retry budget of its kind, the third in a row, sets isDisabled
\* and isRevoked and schedules no retry; an earlier attempt of the chain, its
\* first in particular, neither disables nor revokes the key and schedules a
\* retry.
C13_RevokedOnlyAfterRetries ==
    [][\A h \in Hashes :
          /\ (ServerErrorStep(h) /\ serverErrorCounts[h] >= MAX_SERVER_ERROR_RETRIES)
                => /\ KeyOf(keys, h)'.isDisabled /\ KeyOf(keys, h)'.isRevoked
                   /\ inflight'[h]["timer"] = inflight[h]["timer"]
          /\ (ConnectionErrorStep(h) /\ connectionErrorCounts[h] >= MAX_CONNECTION_ERROR_RETRIES)
                => /\ KeyOf(keys, h)'.isDisabled /\ KeyOf(keys, h)'.isRevoked
                   /\ inflight'[h]["timer"] = inflight[h]["timer"]
          /\ (FirstAttempt(h) /\ (ServerErrorStep(h) \/ ConnectionErrorStep(h)))
                => /\ KeyOf(keys, h)'.isDisabled = KeyOf(keys, h).isDisabled
                   /\ KeyOf(keys, h)'.isRevoked = KeyOf(keys, h).isRevoked
                   /\ inflight'[h]["timer"] = 1]_vars

\* C14: at any time a key hash has at most one pending retry timer or probe
\* in flight, also when recheck() or init() submits the key again.
C14_OnePendingPerKey == \A h \in Hashes : Pending(inflight, h) <= 1

\* C15: the result of a probe is never applied to the key after the result of
\* a probe of the same key that was started later has been applied.
C15_NoStaleResult ==
    [][\A h \in Hashes : \A i \in 1..Len(probes[h]) :
          (probes[h][i].stale /\ Applies(h, i)) => KeyOf(keys, h)' = KeyOf(keys, h)]_vars

\* C16: a probe that receives HTTP 429 never causes the key to become revoked
\* or disabled.
C16_RateLimitIsTransient ==
    [][\A h \in Hashes :
          (PaidResponse(h, 429) \/ FreeResponse(h, 429))
              => (NotRaised(h, "isRevoked") /\ NotRaised(h, "isDisabled"))]_vars

\* C17: a probe that receives HTTP 401 or 403 sets isRevoked and isDisabled,
\* without any retry.
C17_UnauthorizedIsInvalid ==
    [][\A h \in Hashes : \A s \in {401, 403} :
          PaidResponse(h, s)
              => /\ KeyOf(keys, h)'.isRevoked
                 /\ KeyOf(keys, h)'.isDisabled
                 /\ inflight'[h]["timer"] = inflight[h]["timer"]]_vars

\* C18 as stated: a check whose probe received HTTP 402 ends with isOverQuota
\* and isDisabled set, whatever the request with the free model brings.
C18_PaymentRequiredIsOverQuota ==
    [][\A h \in Hashes :
          ((\E s \in FreeStatuses : FreeResponse(h, s)) \/ FetchFails(h, "free"))
              => (KeyOf(keys, h)'.isOverQuota /\ KeyOf(keys, h)'.isDisabled)]_vars

\* C18 as amended: a check whose probe received HTTP 402 and whose request
\* with the free model is answered with a status other than 200 ends with
\* isOverQuota and isDisabled set.
C18_OverQuotaUnlessFreeTier ==
    [][\A h \in Hashes : \A s \in FreeStatuses \ {200} :
          FreeResponse(h, s)
              => (KeyOf(keys, h)'.isOverQuota /\ KeyOf(keys, h)'.isDisabled)]_vars

\* a key a check had classified as free tier and a later check found over
\* quota
C18_Witness ==
    \E i \in 1..Len(keys) :
        /\ keys[i].isFreeTier = Some(TRUE)
        /\ keys[i].isOverQuota
        /\ keys[i].isDisabled
        /\ keys[i].lastChecked = now

\* C19: a probe that receives HTTP 200 or 400 ends the check, without a
\* retry, with the key enabled and with isRevoked and isOverQuota as they
\* were.
C19_OkAndBadRequestAreValid ==
    [][\A h \in Hashes :
          (PaidResponse(h, 400) \/ \E b \in 0..MaxBalance : BalanceResponse(h, b))
              => /\ inflight'[h]["timer"] = inflight[h]["timer"]
                 /\ ~KeyOf(keys, h)'.isDisabled
                 /\ KeyOf(keys, h)'.isRevoked = KeyOf(keys, h).isRevoked
                 /\ KeyOf(keys, h)'.isOverQuota = KeyOf(keys, h).isOverQuota]_vars

\* C20: a check that identifies the key as free tier ends with isFreeTier
\* true and the key enabled; a check that identifies it as paid ends with
\* isFreeTier false.
C20_TierClassified ==
    [][\A h \in Hashes :
          /\ FreeResponse(h, 200)
                => /\ KeyOf(keys, h)'.isFreeTier = Some(TRUE)
                   /\ ~KeyOf(keys, h)'.isDisabled
          /\ (\E b \in 0..MaxBalance : BalanceResponse(h, b))
                => KeyOf(keys, h)'.isFreeTier = Some(FALSE)]_vars

\* a key that one check found over quota and disabled and that a check
\* running beside it then classified as free tier and enabled
C20_Witness ==
    \E i \in 1..Len(keys) :
        /\ keys[i].isFreeTier = Some(TRUE)
        /\ ~keys[i].isDisabled
        /\ keys[i].isOverQuota
        /\ keys[i].lastChecked = now

\* C21: when the check of a key has hit a connection error on two attempts
\* and the next attempt succeeds, the key ends in exactly the state the
\* result of that probe yields and the connection-error counter of the key is
\* cleared.
C21_SuccessAfterConnectionErrors ==
    [][\A h \in Hashes :
          connectionErrorCounts[h] = MAX_CONNECTION_ERROR_RETRIES =>
              /\ \A b \in 0..MaxBalance :
                    BalanceResponse(h, b) =>
                        /\ connectionErrorCounts'[h] = 0
                        /\ KeyOf(keys, h)' =
                              Assign(KeyOf(keys, h),
                                     [isFreeTier |-> Some(FALSE), balance |-> Some(b),
                                      isDisabled |-> FALSE, lastChecked |-> now])
              /\ FreeResponse(h, 200) =>
                    /\ connectionErrorCounts'[h] = 0
                    /\ KeyOf(keys, h)' =
                          Assign(KeyOf(keys, h),
                                 [isFreeTier |-> Some(TRUE), balance |-> Some(0),
                                  isDisabled |-> FALSE, lastChecked |-> now])
              /\ (\E s \in FreeStatuses \ {200} : FreeResponse(h, s)) =>
                    /\ connectionErrorCounts'[h] = 0
                    /\ KeyOf(keys, h)' =
                          Assign(KeyOf(keys, h),
                                 [isDisabled |-> TRUE, isOverQuota |-> TRUE,
                                  lastChecked |-> now])
              /\ PaidResponse(h, 401) =>
                    /\ connectionErrorCounts'[h] = 0
                    /\ KeyOf(keys, h)' =
                          Assign(KeyOf(keys, h),
                                 [isDisabled |-> TRUE, isRevoked |-> TRUE,
                                  lastChecked |-> now])]_vars

\* the only check of a key, after two connection errors, has its request with
\* the paid model answered 200 and waits for the balance
C21_Witness ==
    \E h \in Hashes :
        /\ connectionErrorCounts[h] = MAX_CONNECTION_ERROR_RETRIES
        /\ Pending(inflight, h) = 1
        /\ inflight[h]["balance"] = 1
        /\ ~KeyOf(keys, h).isDisabled

\* C22: when a check ends by demoting the key because a retry budget is
\* exceeded, the server-error count and the connection-error count of the
\* key are both cleared.
C22_CountersClearedOnDemotion ==
    [][\A h \in Hashes :
          ( \/ ServerErrorStep(h) /\ serverErrorCounts[h] >= MAX_SERVER_ERROR_RETRIES
            \/ ConnectionErrorStep(h)
                  /\ connectionErrorCounts[h] >= MAX_CONNECTION_ERROR_RETRIES )
              => (serverErrorCounts'[h] = 0 /\ connectionErrorCounts'[h] = 0)]_vars

\* what recheck() does to the pool when it acts
RecheckEffect ==
    /\ keys' = [i \in 1..Len(keys) |->
                  Assign(keys[i], [isOverQuota |-> FALSE, isDisabled |-> FALSE,
                                   lastChecked |-> 0])]
    /\ \A h \in Hashes :
          /\ inflight'[h] = [inflight[h] EXCEPT !["paid"] = @ + 1]
          /\ probes'[h] = Append(probes[h], NewProbe)

\* C23 as stated: every call of recheck() sets isOverQuota = false,
\* isDisabled = false and lastChecked = 0 on every key of the pool and starts
\* one probe for every key.
C23_RecheckResetsAll == [][Recheck(MaxInFlight) => RecheckEffect]_vars

\* C23 as amended: when init() has created the checker and key checking is
\* on, recheck() sets isOverQuota = false, isDisabled = false and
\* lastChecked = 0 on every key, leaves every other field, and starts one
\* probe for every key; otherwise it changes nothing.
C23_RecheckResetsWhenChecking ==
    [][Recheck(MaxInFlight) =>
          IF checker /\ checkKeys
          THEN RecheckEffect
          ELSE UNCHANGED <<keys, inflight, probes>>]_vars

\* recheck() has just run on a pool of two keys with checks still pending:
\* both keys are back at the baseline, one of them, revoked by an earlier
\* result, included, and each has one more probe in flight
C23_Witness ==
    /\ Len(keys) = 2
    /\ checker
    /\ \A i \in 1..Len(keys) :
          /\ ~keys[i].isDisabled
          /\ ~keys[i].isOverQuota
          /\ keys[i].lastChecked = 0
          /\ inflight[i]["paid"] = 2
    /\ \E i \in 1..Len(keys) : keys[i].isRevoked

\* C24: in every reachable state a key that is over quota is disabled, and
\* get() never returns a key that is over quota, whether the model is free
\* or paid.
C24_OverQuotaIsDisabled ==
    /\ \A i \in 1..Len(keys) : keys[i].isOverQuota => keys[i].isDisabled
    /\ GotKey => ~TheKey.isOverQuota

\* C25: get() filters, selects, stamps lastUsed and throttles in one step, so
\* no state that another call can observe holds a key that was selected and
\* not yet throttled: a key that carries a lastUsed stamp carries the throttle
\* stamps of that get() or later ones, and the key the last get() returned is
\* stamped.
C25_SelectedIsThrottled ==
    /\ \A i \in 1..Len(keys) :
          keys[i].lastUsed > 0 =>
              /\ keys[i].rateLimitedAt >= keys[i].lastUsed
              /\ keys[i].rateLimitedUntil >= keys[i].lastUsed + KEY_REUSE_DELAY
    /\ GotKey => (TheKey.lastUsed > 0 /\ TheKey.lastUsed <= now)

\* two calls of get() at different times returned the two keys of the pool:
\* each key carries the stamps of its own call
C25_Witness ==
    /\ GotKey
    /\ \E i, j \in 1..Len(keys) :
          /\ keys[i].lastUsed > 0
          /\ keys[j].lastUsed > keys[i].lastUsed
          /\ keys[i].rateLimitedAt = keys[i].lastUsed
          /\ keys[j].rateLimitedAt = keys[j].lastUsed
          /\ keys[j].hash = res.hash

\* C26: incrementUsage(hash, family, {input, output}) adds exactly 1 to the
\* key's promptCount and input and output to the family's totals, which start
\* at {0, 0} when the family has no bucket yet, and changes nothing else; n
\* calls with the same usage add n times the usage and n to promptCount; two
\* calls for different families give the same record in either order.
C26_UsageAccumulates ==
    \A h \in Hashes : \A f \in UsageFamilies : \A u \in Usages :
        LET k == KeyOf(keys, h)
            was == IF f \in DOMAIN k.tokenUsage THEN k.tokenUsage[f]
                   ELSE [input |-> 0, output |-> 0]
            after == incrementUsage(keys, h, f, u)
        IN /\ after = [keys EXCEPT
                          ![Find(keys, h)].promptCount = k.promptCount + 1,
                          ![Find(keys, h)].tokenUsage =
                              [g \in DOMAIN k.tokenUsage \cup {f} |->
                                  IF g = f
                                  THEN [input |-> was.input + u.input,
                                        output |-> was.output + u.output]
                                  ELSE k.tokenUsage[g]]]
           /\ \A n \in 1..MaxCalls :
                 /\ Times(k, f, u, n).promptCount = k.promptCount + n
                 /\ Times(k, f, u, n).tokenUsage[f] =
                        [input |-> was.input + n * u.input,
                         output |-> was.output + n * u.output]
           /\ \A g \in UsageFamilies \ {f} : \A v \in Usages :
                 incrementUsage(incrementUsage(keys, h, f, u), h, g, v)
                     = incrementUsage(incrementUsage(keys, h, g, v), h, f, u)

\* a key that has counted three prompts, two of them with the same usage for
\* one family and one for the other family, beside a key with usage of its own
C26_Witness ==
    \E i, j \in 1..Len(keys) :
        /\ i # j
        /\ keys[i].promptCount = 3
        /\ DOMAIN keys[i].tokenUsage = UsageFamilies
        /\ keys[i].tokenUsage["familyA"] = [input |-> 20, output |-> 10]
        /\ keys[i].tokenUsage["openrouter"] = [input |-> 1, output |-> 0]
        /\ keys[j].promptCount = 1

\* C27: what a holder does to the object get() returned, its nested
\* tokenUsage included, changes no record of the pool.
C27_SnapshotIsImmutable ==
    [][(\E f \in UsageFamilies : \E u \in Usages : HolderWrites(f, u))
          => keys' = keys]_vars

\* the partial records the checker passes to update()
CheckerUpdates(t) == Updates(t) \ {recheckUpdate}

\* C28: a step of the checker changes the pool only as calls of
\* update(hash, fields) for the hash of the key it is checking do: the
\* records of the other keys stay as they are, and the record of the checked
\* key is the old one with the fields of at most two such calls assigned.
C28_OnlyThroughUpdate ==
    [][CheckerNext =>
          \E h \in Hashes :
              /\ inflight'[h] # inflight[h]
              /\ Len(keys') = Len(keys)
              /\ \A g \in Hashes \ {h} : KeyOf(keys, g)' = KeyOf(keys, g)
              /\ LET k == KeyOf(keys, h)
                 IN \/ KeyOf(keys, h)' = k
                    \/ \E u \in CheckerUpdates(now) :
                          KeyOf(keys, h)' = [f \in DOMAIN k |->
                              IF f \in DOMAIN u THEN u[f] ELSE k[f]]
                    \/ \E u, v \in CheckerUpdates(now) :
                          KeyOf(keys, h)' = [f \in DOMAIN k |->
                              IF f \in DOMAIN v THEN v[f]
                              ELSE IF f \in DOMAIN u THEN u[f] ELSE k[f]]]_vars

\* the checks of two keys have ended differently: one key is revoked and
\* disabled, the other is recorded as a paid key with its balance and enabled
C28_Witness ==
    \E i, j \in 1..Len(keys) :
        /\ keys[i].isRevoked /\ keys[i].isDisabled
        /\ keys[i].isFreeTier = Undefined
        /\ keys[j].isFreeTier = Some(FALSE)
        /\ ~keys[j].isDisabled /\ ~keys[j].isRevoked
        /\ keys[j].lastChecked = now

\* C29: a failed attempt of the check of one key, a thrown error or a server
\* error, the last one of its budget included, is handled by checkKey: the
\* check goes on with a retry timer or ends with the key revoked and disabled,
\* and the record, the checks in flight and the error counts of every other
\* key stay as they are.
C29_FailureIsContained ==
    [][\A h \in Hashes :
          (ConnectionErrorStep(h) \/ ServerErrorStep(h)) =>
              /\ \/ inflight'[h]["timer"] = inflight[h]["timer"] + 1
                 \/ /\ Pending(inflight', h) = Pending(inflight, h) - 1
                    /\ KeyOf(keys, h)'.isRevoked
                    /\ KeyOf(keys, h)'.isDisabled
              /\ \A g \in Hashes \ {h} :
                    /\ KeyOf(keys, g)' = KeyOf(keys, g)
                    /\ inflight'[g] = inflight[g]
                    /\ probes'[g] = probes[g]
                    /\ serverErrorCounts'[g] = serverErrorCounts[g]
                    /\ connectionErrorCounts'[g] = connectionErrorCounts[g]]_vars

\* the check of one key has used up its connection-error budget and the key
\* is revoked, while the check of the other key, one connection error behind
\* it, waits for its retry
C29_Witness ==
    \E g, h \in Hashes :
        /\ g # h
        /\ KeyOf(keys, h).isRevoked
        /\ Pending(inflight, h) = 0
        /\ connectionErrorCounts[h] = 0
        /\ connectionErrorCounts[g] = 1
        /\ inflight[g]["timer"] = 1
        /\ ~KeyOf(keys, g).isDisabled

\* C30: every key that is not revoked is probed again in the end, without a
\* call of recheck(): whenever the key has no check pending, a request with
\* the paid model for it is in flight at some later time.
C30_ProbedAgain ==
    \A h \in 1..PoolKeys :
        [](( /\ h \in Hashes
             /\ ~KeyOf(keys, h).isRevoked
             /\ Pending(inflight, h) = 0 )
               => <>(h \in Hashes /\ inflight[h]["paid"] > 0))

\* C31: every outbound call of a check, the request with the paid model, the
\* request with the free model and the balance lookup, completes or is
\* aborted: none stays in flight forever.
C31_ProbesEnd ==
    \A h \in 1..PoolKeys : \A stage \in {"paid", "free", "balance"} :
        []((h \in Hashes /\ inflight[h][stage] > 0)
              => <>(h \in Hashes /\ inflight[h][stage] = 0))

\* C32: a check begins with the key-info request, and a completion request,
\* with the paid or the free model, is issued only when a key-info request of
\* the key comes back.
C32_KeyInfoFirst ==
    [][\A h \in Hashes :
          /\ (Pending(inflight', h) > Pending(inflight, h) \/ RetryFires(h))
                => inflight'[h]["balance"] = inflight[h]["balance"] + 1
          /\ ( \/ inflight'[h]["paid"] > inflight[h]["paid"]
               \/ inflight'[h]["free"] > inflight[h]["free"] )
                => inflight'[h]["balance"] < inflight[h]["balance"]]_vars

\* no checker can be running: no key is configured, or key checking is off
NoChecker == Len(keys) = 0 \/ ~checkKeys

\* C33: when no key is configured or key checking is off, init() starts no
\* probe and creates no checker, recheck() leaves every key record as it is,
\* available() and list() have a result for every state of the pool, and with
\* no key in the pool get() fails and changes nothing.
C33_NoCheckerNoOp ==
    [][NoChecker =>
          /\ ~checker'
          /\ \A h \in Hashes : Pending(inflight', h) = 0
          /\ Recheck(MaxInFlight) => keys' = keys
          /\ available(keys') \in 0..Len(keys')
          /\ Len(list(keys')) = Len(keys')
          /\ \A m \in Models :
                (GetStep(m) /\ Len(keys) = 0) => (~res'.ok /\ keys' = keys)]_vars

\* key checking is off and init() has run: the key that get() handed out and
\* that was rate-limited and disabled afterwards is still disabled, with no
\* checker and no probe
C33_Witness ==
    /\ ~checkKeys
    /\ started
    /\ ~checker
    /\ res = Quiet
    /\ \E i \in 1..Len(keys) :
          /\ keys[i].isDisabled
          /\ keys[i].lastUsed > 0
          /\ keys[i].rateLimitedUntil > keys[i].lastUsed + KEY_REUSE_DELAY

\* C34: list() returns one entry per key of the pool, in the pool's order; no
\* entry has the field that holds the secret, and every other field of the
\* entry equals the field of the pool's record.
C34_ListRedacts ==
    LET entries == list(keys)
    IN /\ Len(entries) = Len(keys)
       /\ \A i \in 1..Len(keys) :
             /\ DOMAIN entries[i] = DOMAIN keys[i] \ {"key"}
             /\ "key" \in DOMAIN keys[i]
             /\ \A f \in DOMAIN keys[i] \ {"key"} : entries[i][f] = keys[i][f]

\* a pool of two keys in different states, one revoked by the checker and one
\* stamped by get(), listed with their states and without their secrets
C34_Witness ==
    /\ Len(keys) = 2
    /\ keys[1].isRevoked
    /\ keys[2].lastUsed > 0
    /\ list(keys)[1].isRevoked
    /\ list(keys)[2].lastUsed = keys[2].lastUsed
    /\ list(keys)[2].hash = 2

\* C35: update(), disable() and incrementUsage() called with a hash that is
\* not in the pool change nothing and return normally; markRateLimited()
\* called with such a hash does not return normally, and writes nothing.
C35_UnknownHash ==
    [][\A h \in CallerHashes :
          ~HasKey(keys, h) =>
              /\ ( \/ \E upd \in CallerUpdates(now) : Update(h, upd)
                   \/ Disable(h)
                   \/ IncrementUsage(h, "openrouter", [input |-> 1, output |-> 1], MaxPrompts) )
                    => (keys' = keys /\ res'.ok /\ UNCHANGED <<checkKeys, checker, started, checkerVars>>)
              /\ MarkRateLimited(h) => (~res'.ok /\ keys' = keys)]_vars

\* markRateLimited() has just failed for a hash the pool does not hold, on a
\* pool whose only key has been handed out, counted and disabled before
C35_Witness ==
    /\ res.op = "markRateLimited"
    /\ ~res.ok
    /\ ~HasKey(keys, res.hash)
    /\ Len(keys) = 1
    /\ keys[1].isDisabled
    /\ keys[1].promptCount = 1
    /\ keys[1].lastUsed > 0

\* C36: an attempt of a check that fails within the retry budget, with a
\* server-error result or a thrown error that brings the count of the key to
\* at most 2, writes lastChecked of the key and nothing else in the pool, and
\* sets exactly one retry timer.
C36_RetryOnlyStampsLastChecked ==
    [][\A h \in Hashes :
          ( \/ ServerErrorStep(h) /\ serverErrorCounts[h] < MAX_SERVER_ERROR_RETRIES
            \/ ConnectionErrorStep(h) /\ connectionErrorCounts[h] < MAX_CONNECTION_ERROR_RETRIES )
              => /\ keys' = [keys EXCEPT ![Find(keys, h)].lastChecked = now]
                 /\ inflight'[h]["timer"] = inflight[h]["timer"] + 1
                 /\ Pending(inflight', h) = Pending(inflight, h)]_vars

\* the first attempt of the check that recheck() started for a revoked key
\* has failed with a server error: the key is as recheck() left it, checked
\* now, and one retry is waiting
C36_Witness ==
    \E h \in Hashes :
        /\ serverErrorCounts[h] = 1
        /\ connectionErrorCounts[h] = 0
        /\ inflight[h]["timer"] = 1
        /\ Pending(inflight, h) = 1
        /\ KeyOf(keys, h).isRevoked
        /\ ~KeyOf(keys, h).isDisabled
        /\ KeyOf(keys, h).lastChecked = now

\* C37: as the clock advances, no call of get() or markRateLimited() lowers
\* the rateLimitedUntil of a key.
C37_LockoutNeverShrinks ==
    [][\A i \in 1..Len(keys) :
          keys'[i].rateLimitedUntil >= keys[i].rateLimitedUntil]_vars

\* a key locked out by markRateLimited() and handed out by get() later on,
\* within the lockout: the lockout still ends when markRateLimited() said
C37_Witness ==
    \E i \in 1..Len(keys) :
        /\ now > Epoch
        /\ keys[i].lastUsed = now
        /\ keys[i].rateLimitedAt = now
        /\ keys[i].rateLimitedUntil > now + KEY_REUSE_DELAY
        /\ keys[i].rateLimitedUntil < now + RATE_LIMIT_LOCKOUT

\* what the two counts of the key leave of its retry budgets: a returned
\* result clears the connection-error count, a thrown error leaves the
\* server-error count
Budget(h) ==
    (MAX_SERVER_ERROR_RETRIES + 1 - serverErrorCounts[h])
        * (MAX_CONNECTION_ERROR_RETRIES + 1) - connectionErrorCounts[h]

C39_FreeModelFallsBack ==
    [][\A m \in Models :
          GetStep(m) =>
              LET k == KeyOf(keys, res'.hash)
                  freeTier == {i \in 1..Len(keys) :
                                  /\ ~keys[i].isDisabled
                                  /\ TRUE \in keys[i].isFreeTier
                                  /\ ~keys[i].isOverQuota}
              IN IF m \in freeModels
                 THEN /\ res'.ok <=> available(keys) > 0
                      /\ res'.ok => ~k.isDisabled
                      /\ (res'.ok /\ freeTier # {}) => k.hash \in {keys[i].hash : i \in freeTier}
                 ELSE res'.ok => (~k.isDisabled /\ ~(TRUE \in k.isFreeTier))]_vars

\* a free model was given a paid key because the only free-tier key of the
\* pool is disabled
C39_Witness ==
    /\ GotKey
    /\ isFreeModel(res.arg)
    /\ TheKey.isFreeTier = Some(FALSE)
    /\ ~TheKey.isDisabled
    /\ \E i \in 1..Len(keys) : keys[i].isFreeTier = Some(TRUE) /\ keys[i].isDisabled

\* C40: a call of the models endpoint within 60 s of the last successful
\* fetch answers with the cached list, takes no key from the pool and sends
\* nothing upstream; a failed fetch leaves the cache and its timestamp as they
\* were, and a call made when no fetch has succeeded within the last 60 s
\* goes upstream again, or fails for want of a key; no successful answer
\* carries the empty (null) cache.
C40_ModelsCache ==
    [][/\ (ModelRequest /\ models.time > 0 /\ now - models.time < MODELS_CACHE_TTL)
            => /\ res' = Result("models", ModelList, NoKey, TRUE)
               /\ keys' = keys
               /\ models' = models
       /\ UpstreamAnswers(FALSE)
            => /\ models'.cache = models.cache
               /\ models'.time = models.time
               /\ ~res'.ok
       /\ (ModelRequest /\ now - models.time >= MODELS_CACHE_TTL)
            => (models'.fetching = models.fetching + 1 \/ ~res'.ok)
       /\ (res'.op = "models" /\ res'.ok) => res'.arg # Null]_vars

\* the list that a fetch brought, with a key taken from the pool before it,
\* is in the cache and still fresh some time after the fetch
C40_Witness ==
    /\ res = Result("models", ModelList, NoKey, TRUE)
    /\ models.cache = ModelList
    /\ models.fetching = 0
    /\ now > models.time
    /\ now - models.time < MODELS_CACHE_TTL
    /\ \E i \in 1..Len(keys) : keys[i].lastUsed > ModelsEpoch /\ keys[i].lastUsed < models.time

====
